---- MODULE Spec2Model ----
(***************************************************************************)
(* Model of extract_pdf.py: the command-line entry point (lines 15-26)     *)
(* and extract_text_from_pdf (lines 5-13).                                 *)
(*                                                                         *)
(* Strings are sequences of one-character strings, so that concatenation,  *)
(* prefixes and newline counts are computed and not assumed.  The          *)
(* PDF-decoding library is a black box: what it does for a path is fixed   *)
(* by the filesystem state fs, which holds for every path either nothing,  *)
(* an entry the library cannot open (with the text of the exception), or   *)
(* a document whose pages each yield a text or raise (with the text of     *)
(* the exception).                                                         *)
(***************************************************************************)
EXTENDS Integers, Sequences, FiniteSets

VARIABLES
  sys_argv,      \* the command line, program name first
  fs,            \* the filesystem: path -> entry
  pc,            \* position of the run in the script
  pdf_path,      \* __main__: pdf_path
  text,          \* extract_text_from_pdf: text
  k,             \* extract_text_from_pdf: pages consumed by the for loop
  ret,           \* value returned by extract_text_from_pdf
  stdout,        \* characters written to standard output in this run
  exit,          \* exit status of this run, Running until it has one
  existsChecks,  \* calls of os.path.exists in this run
  extractCalls,  \* calls of extract_text_from_pdf in this run
  queried,       \* page indexes on which extract_text was called, in order
  outcomes       \* what the earlier runs on this command line produced

vars == <<sys_argv, fs, pc, pdf_path, text, k, ret, stdout, exit,
          existsChecks, extractCalls, queried, outcomes>>

----------------------------------------------------------------------------
(* Bounds of the model *)

MaxArgs == 2
MaxPages == 3
MaxRuns == 2

----------------------------------------------------------------------------
(* Strings *)

NL == "\n"

ProgName ==
  <<"e", "x", "t", "r", "a", "c", "t", "_", "p", "d", "f", ".", "p", "y">>

\* "Erro ao ler PDF: "
ErrorMarker ==
  <<"E", "r", "r", "o", " ", "a", "o", " ", "l", "e", "r", " ", "P", "D",
    "F", ":", " ">>

\* "Uso: python extract_pdf.py <caminho_do_pdf>"
UsageMessage ==
  <<"U", "s", "o", ":", " ", "p", "y", "t", "h", "o", "n", " ", "e", "x",
    "t", "r", "a", "c", "t", "_", "p", "d", "f", ".", "p", "y", " ", "<",
    "c", "a", "m", "i", "n", "h", "o", "_", "d", "o", "_", "p", "d", "f",
    ">">>

\* "Arquivo n~ao encontrado: " ("a~" stands for the one character a-tilde)
NotFoundPrefix ==
  <<"A", "r", "q", "u", "i", "v", "o", " ", "n", "a~", "o", " ", "e", "n",
    "c", "o", "n", "t", "r", "a", "d", "o", ":", " ">>

IsPrefix(s, t) == Len(s) <= Len(t) /\ SubSeq(t, 1, Len(s)) = s

RECURSIVE CountNL(_)
CountNL(s) ==
  IF s = <<>> THEN 0
  ELSE (IF Head(s) = NL THEN 1 ELSE 0) + CountNL(Tail(s))

----------------------------------------------------------------------------
(* The environment: command lines, and what the library finds on disk *)

Paths == {<<"a">>, <<"b">>}

\* what page.extract_text() can return: nothing, or text with a line break in it
PageTexts == {<<>>, <<"l", NL, "m">>}

\* str(e) of what PdfReader(path) can raise on an entry it cannot decode
OpenErrors == {<<>>, <<"E", "O", "F">>}

\* str(e) of what page.extract_text() can raise
PageErrors == {<<"k">>}

\* str(e) of the FileNotFoundError raised when a path that is not there is opened
NoSuchFile == <<"n", "o">>

\* the classes of these exceptions, all derived from Exception
ExceptionSubclasses == {"FileNotFoundError", "PdfReadError", "KeyError"}

SeqsUpTo(S, n) == UNION {[1..m -> S] : m \in 0..n}

PageOutcomes ==
  [ok : {TRUE}, cls : {"none"}, s : PageTexts]
  \cup [ok : {FALSE}, cls : {"KeyError"}, s : PageErrors]

Missing ==
  [kind |-> "missing", cls |-> "FileNotFoundError", msg |-> NoSuchFile,
   pages |-> <<>>]

Entries ==
  {Missing}
  \cup [kind : {"unreadable"}, cls : {"PdfReadError"}, msg : OpenErrors,
        pages : {<<>>}]
  \cup [kind : {"pdf"}, cls : {"none"}, msg : {<<>>},
        pages : SeqsUpTo(PageOutcomes, MaxPages)]

CommandLines == {<<ProgName>> \o a : a \in SeqsUpTo(Paths, MaxArgs)}

----------------------------------------------------------------------------
(* Exit statuses *)

Running == 0 - 1

ExitFailure == 1

ExitOk == 0

----------------------------------------------------------------------------
(* extract_text_from_pdf *)

Diagnostic(msg) == ErrorMarker \o msg

\* text keeps what the previous call left in it
InitialTextStale == text

\* text starts as a line end
InitialTextNewline == <<NL>>

InitialText == <<>>

\* the line end after the page's text is forgotten
AccumulateNoNewline(t, p) == t \o p

Accumulate(t, p) == t \o p \o <<NL>>

\* the handler returns what was accumulated, then the diagnostic
PartialResult(t, msg) == t \o Diagnostic(msg)

\* return f"Erro ao ler PDF: {str(e)}": the accumulated text t is dropped
FailureResult(t, msg) == Diagnostic(msg)

\* except PdfReadError as e: a narrower handler
CaughtReadErrorOnly(cls) == cls = "PdfReadError"

\* except Exception as e
Caught(cls) == cls \in ExceptionSubclasses

\* an exception of class cls and text msg is raised inside the try block: the
\* handler returns the diagnostic string; what it does not catch ends the
\* process with a traceback and status 1
Raise(cls, msg) ==
  IF Caught(cls)
    THEN /\ ret' = FailureResult(text, msg)
         /\ pc' = "print"
         /\ exit' = exit
    ELSE /\ pc' = "crashed"
         /\ exit' = ExitFailure
         /\ ret' = ret

\* for page in reader.pages: the pages not yet consumed
HasNextPage(pages, i) == i < Len(pages)

\* the loop does not advance
NextIndexStuck(i) == i

NextIndex(i) == i + 1

\* PdfReader(pdf_path); text = ""
Open ==
  /\ pc = "open"
  /\ IF fs[pdf_path].kind = "pdf"
       THEN /\ text' = InitialText
            /\ k' = 0
            /\ pc' = "loop"
            /\ UNCHANGED <<ret, exit>>
       ELSE /\ Raise(fs[pdf_path].cls, fs[pdf_path].msg)
            /\ UNCHANGED <<text, k>>
  /\ UNCHANGED <<sys_argv, fs, pdf_path, stdout, existsChecks,
                 extractCalls, queried, outcomes>>

\* one iteration of the loop: text += page.extract_text() + "\n"
ExtractPage ==
  /\ pc = "loop"
  /\ HasNextPage(fs[pdf_path].pages, k)
  /\ LET page == fs[pdf_path].pages[k + 1] IN
       /\ queried' = Append(queried, k)
       /\ IF page.ok
            THEN /\ text' = Accumulate(text, page.s)
                 /\ k' = NextIndex(k)
                 /\ UNCHANGED <<pc, ret, exit>>
            ELSE /\ Raise(page.cls, page.s)
                 /\ UNCHANGED <<text, k>>
  /\ UNCHANGED <<sys_argv, fs, pdf_path, stdout, existsChecks,
                 extractCalls, outcomes>>

\* return text
ReturnText ==
  /\ pc = "loop"
  /\ ~HasNextPage(fs[pdf_path].pages, k)
  /\ ret' = text
  /\ pc' = "print"
  /\ UNCHANGED <<sys_argv, fs, pdf_path, text, k, stdout, exit, existsChecks,
                 extractCalls, queried, outcomes>>

----------------------------------------------------------------------------
(* __main__ *)

\* print(s): the string and a line end
Printed(out, s) == out \o s \o <<NL>>

ArgsMissing(av) == Len(av) < 2

\* the existence check is left out
PathExistsUnchecked(f, p) == TRUE

PathExists(f, p) == f[p].kind /= "missing"

\* sys.exit(0) after the usage message
UsageStatusZero == ExitOk

\* sys.exit(1) after the usage message
UsageStatus == ExitFailure

\* sys.exit(1) after the file-not-found message
NotFoundStatus == ExitFailure

\* a diagnostic string makes the process fail
FinalStatusFromResult == IF IsPrefix(ErrorMarker, ret) THEN ExitFailure ELSE ExitOk

\* the script runs to its end
FinalStatus == ExitOk

\* if len(sys.argv) < 2: print usage, sys.exit(1); pdf_path = sys.argv[1]
CheckArgs ==
  /\ pc = "main"
  /\ IF ArgsMissing(sys_argv)
       THEN /\ stdout' = Printed(stdout, UsageMessage)
            /\ exit' = UsageStatus
            /\ pc' = "exited"
            /\ UNCHANGED pdf_path
       ELSE /\ pdf_path' = sys_argv[2]
            /\ pc' = "exists"
            /\ UNCHANGED <<stdout, exit>>
  /\ UNCHANGED <<sys_argv, fs, text, k, ret, existsChecks, extractCalls,
                 queried, outcomes>>

\* if not os.path.exists(pdf_path): print not found, sys.exit(1)
CheckExists ==
  /\ pc = "exists"
  /\ existsChecks' = existsChecks + 1
  /\ IF PathExists(fs, pdf_path)
       THEN /\ pc' = "call"
            /\ UNCHANGED <<stdout, exit>>
       ELSE /\ stdout' = Printed(stdout, NotFoundPrefix \o pdf_path)
            /\ exit' = NotFoundStatus
            /\ pc' = "exited"
  /\ UNCHANGED <<sys_argv, fs, pdf_path, text, k, ret, extractCalls,
                 queried, outcomes>>

\* text = extract_text_from_pdf(pdf_path): the call
CallExtract ==
  /\ pc = "call"
  /\ extractCalls' = extractCalls + 1
  /\ pc' = "open"
  /\ UNCHANGED <<sys_argv, fs, pdf_path, text, k, ret, stdout, exit,
                 existsChecks, queried, outcomes>>

\* print(text), and the script ends
PrintResult ==
  /\ pc = "print"
  /\ stdout' = Printed(stdout, ret)
  /\ exit' = FinalStatus
  /\ pc' = "exited"
  /\ UNCHANGED <<sys_argv, fs, pdf_path, text, k, ret, existsChecks,
                 extractCalls, queried, outcomes>>

\* the same command line is run again on the same filesystem
Rerun ==
  /\ pc = "exited"
  /\ Len(outcomes) + 1 < MaxRuns
  /\ outcomes' = Append(outcomes, [out |-> stdout, status |-> exit, value |-> ret,
                                   called |-> extractCalls])
  /\ pc' = "main"
  /\ stdout' = <<>>
  /\ exit' = Running
  /\ existsChecks' = 0
  /\ extractCalls' = 0
  /\ queried' = <<>>
  /\ UNCHANGED <<sys_argv, fs, pdf_path, text, k, ret>>

----------------------------------------------------------------------------

Init ==
  /\ sys_argv \in CommandLines
  /\ fs \in [Paths -> Entries]
  /\ pc = "main"
  /\ pdf_path = <<>>
  /\ text = <<>>
  /\ k = 0
  /\ ret = <<>>
  /\ stdout = <<>>
  /\ exit = Running
  /\ existsChecks = 0
  /\ extractCalls = 0
  /\ queried = <<>>
  /\ outcomes = <<>>

Next ==
  \/ CheckArgs
  \/ CheckExists
  \/ CallExtract
  \/ Open
  \/ ExtractPage
  \/ ReturnText
  \/ PrintResult

Spec == Init /\ [][Next]_vars

NextRerun == Next \/ Rerun

SpecRerun == Init /\ [][NextRerun]_vars

LiveSpec == Init /\ [][Next]_vars /\ WF_vars(Next)

----------------------------------------------------------------------------
(* What the claims speak of *)

Doc == fs[pdf_path]

\* extract_text_from_pdf has been called in this run and has returned
Returned == pc \in {"print", "exited"} /\ extractCalls = 1

AllPagesOk(pages) == \A i \in 1..Len(pages) : pages[i].ok

\* the 1-based position of the first page whose extraction raises
FirstFailure(pages) ==
  CHOOSE i \in 1..Len(pages) : ~pages[i].ok /\ \A j \in 1..(i - 1) : pages[j].ok

\* p0 + "\n" + p1 + "\n" + ... + pn + "\n"
RECURSIVE ExpectedText(_)
ExpectedText(pages) ==
  IF pages = <<>> THEN <<>>
  ELSE pages[1].s \o <<NL>> \o ExpectedText(Tail(pages))

RECURSIVE NewlinesIn(_)
NewlinesIn(pages) ==
  IF pages = <<>> THEN 0 ELSE CountNL(pages[1].s) + NewlinesIn(Tail(pages))

\* the page indexes 0 .. n-1 in order
FirstIndexes(n) == [i \in 1..n |-> i - 1]

Succeeds(d) == d.kind = "pdf" /\ AllPagesOk(d.pages)

\* the text of the first exception the library raises on d
FailureText(d) ==
  IF d.kind = "pdf" THEN d.pages[FirstFailure(d.pages)].s ELSE d.msg

UsageOutcome ==
  /\ stdout = UsageMessage \o <<NL>>
  /\ exit = 1
  /\ existsChecks = 0
  /\ extractCalls = 0

NotFoundOutcome ==
  /\ Len(sys_argv) >= 2
  /\ stdout = NotFoundPrefix \o sys_argv[2] \o <<NL>>
  /\ exit = 1
  /\ existsChecks = 1
  /\ extractCalls = 0

ResultOutcome ==
  /\ stdout = ret \o <<NL>>
  /\ exit = 0
  /\ existsChecks = 1
  /\ extractCalls = 1

----------------------------------------------------------------------------
(* The claims *)

\* C1: when the document opens and every page yields its text, the function
\* returns p0 + "\n" + ... + pn + "\n": every page's text once, in page order,
\* each followed by one line end, the last included; the pages were queried
\* once each in the order 0..n; a single page with empty text gives "\n".
C1_Concatenation ==
  (Returned /\ Succeeds(Doc)) =>
     /\ ret = ExpectedText(Doc.pages)
     /\ queried = FirstIndexes(Len(Doc.pages))
     /\ (Len(Doc.pages) = 1 /\ Doc.pages[1].s = <<>> => ret = <<NL>>)

C1_Witness ==
  /\ Returned
  /\ Succeeds(Doc)
  /\ Len(Doc.pages) = 3
  /\ Doc.pages[1].s = <<>>
  /\ Doc.pages[2].s /= <<>>
  /\ ret = <<NL>> \o Doc.pages[2].s \o <<NL>> \o Doc.pages[3].s \o <<NL>>

\* C2: no exception leaves extract_text_from_pdf: whatever is raised while
\* the document is opened or a page's text is extracted, the call returns the
\* marker "Erro ao ler PDF: " followed by the text of that exception.
C2_FailureReturned ==
  /\ pc /= "crashed"
  /\ (Returned /\ ~Succeeds(Doc)) => ret = ErrorMarker \o FailureText(Doc)

C2_Witness ==
  /\ Returned
  /\ Doc.kind = "pdf"
  /\ ~AllPagesOk(Doc.pages)
  /\ FirstFailure(Doc.pages) = 2
  /\ ret = ErrorMarker \o Doc.pages[2].s

\* C3: when extraction fails at page k after pages 0..k-1 were extracted, the
\* value returned is the diagnostic string alone, the text accumulated from
\* pages 0..k-1 is no part of it, and no page after k is queried.
C3_NoPartialResult ==
  (Returned /\ Doc.kind = "pdf" /\ ~AllPagesOk(Doc.pages)) =>
     LET f == FirstFailure(Doc.pages) IN
       /\ text = ExpectedText(SubSeq(Doc.pages, 1, f - 1))
       /\ ret = ErrorMarker \o Doc.pages[f].s
       /\ (text /= <<>> => ~IsPrefix(text, ret))
       /\ queried = FirstIndexes(f)

C3_Witness ==
  /\ Returned
  /\ Doc.kind = "pdf"
  /\ Len(Doc.pages) = 3
  /\ Doc.pages[1].ok
  /\ Doc.pages[1].s /= <<>>
  /\ ~Doc.pages[2].ok
  /\ text /= <<>>
  /\ queried = <<0, 1>>

\* C4: with no path argument the run prints the usage message, exits with
\* status 1, and neither checks a path's existence nor calls the Extractor.
C4_MissingArgument ==
  Len(sys_argv) = 1 =>
     /\ existsChecks = 0
     /\ extractCalls = 0
     /\ pc \in {"main", "exited"}
     /\ (pc = "exited" => stdout = UsageMessage \o <<NL>> /\ exit = 1)

C4_Witness ==
  /\ Len(sys_argv) = 1
  /\ pc = "exited"
  /\ stdout = UsageMessage \o <<NL>>

\* C5: with a path that does not exist the run prints the file-not-found
\* message with exactly that path, exits with status 1 and never calls the
\* Extractor; the Extractor is only ever called after the existence check.
C5_MissingFile ==
  /\ (extractCalls > 0 => existsChecks = 1)
  /\ (Len(sys_argv) >= 2 /\ fs[sys_argv[2]].kind = "missing") =>
        /\ extractCalls = 0
        /\ pc \in {"main", "exists", "exited"}
        /\ (pc = "exited" =>
              /\ stdout = NotFoundPrefix \o sys_argv[2] \o <<NL>>
              /\ exit = 1
              /\ existsChecks = 1)

C5_Witness ==
  /\ Len(sys_argv) >= 2
  /\ fs[sys_argv[2]].kind = "missing"
  /\ pc = "exited"
  /\ existsChecks = 1
  /\ stdout = NotFoundPrefix \o sys_argv[2] \o <<NL>>

\* C6: with a path that exists the run calls the Extractor once, prints the
\* value it returned and exits with status 0, be that value the extracted
\* text or a diagnostic string.
C6_ResultPrinted ==
  (Len(sys_argv) >= 2 /\ fs[sys_argv[2]].kind /= "missing") =>
     /\ extractCalls <= 1
     /\ pc /= "crashed"
     /\ (pc = "exited" =>
           /\ extractCalls = 1
           /\ stdout = ret \o <<NL>>
           /\ ret = (IF Succeeds(fs[sys_argv[2]])
                       THEN ExpectedText(fs[sys_argv[2]].pages)
                       ELSE ErrorMarker \o FailureText(fs[sys_argv[2]]))
           /\ exit = 0)

C6_Witness ==
  /\ Len(sys_argv) >= 2
  /\ fs[sys_argv[2]].kind = "unreadable"
  /\ pc = "exited"
  /\ exit = 0
  /\ IsPrefix(ErrorMarker, stdout)

\* C7: the Extractor is called only in runs whose command line holds exactly
\* one positional argument.
C7_ExactlyOneArgument == extractCalls > 0 => Len(sys_argv) = 2

\* C8: run again on the same command line and the same filesystem, the
\* program prints the same output and exits with the same status, and the
\* Extractor returns the same value, as in every earlier run.
C8_Deterministic ==
  \A i \in 1..Len(outcomes) :
     /\ (pc = "exited" => stdout = outcomes[i].out /\ exit = outcomes[i].status)
     /\ (Returned /\ outcomes[i].called = 1 => ret = outcomes[i].value)

C8_Witness ==
  /\ Len(outcomes) = 1
  /\ pc = "exited"
  /\ extractCalls = 1
  /\ Succeeds(Doc)
  /\ Len(Doc.pages) >= 2
  /\ stdout = outcomes[1].out

\* C9: every run terminates, in exactly one of the three outcomes (usage
\* message and status 1, file-not-found message and status 1, printed result
\* and status 0); the Extractor is called at most once and the loop queries
\* no page twice.
C9_Terminates ==
  /\ <>(pc = "exited")
  /\ [](extractCalls <= 1)
  /\ [](queried = FirstIndexes(Len(queried)))
  /\ [](Len(queried) <= (IF pdf_path \in Paths THEN Len(fs[pdf_path].pages) ELSE 0))
  /\ [](pc = "exited" =>
          /\ UsageOutcome \/ NotFoundOutcome \/ ResultOutcome
          /\ ~(UsageOutcome /\ NotFoundOutcome)
          /\ ~(UsageOutcome /\ ResultOutcome)
          /\ ~(NotFoundOutcome /\ ResultOutcome))

C9_Witness ==
  /\ pc = "exited"
  /\ ResultOutcome
  /\ queried = <<0, 1, 2>>

\* C10: a document that opens and has no pages gives the empty string; on
\* success the Extractor adds as many line ends as the document has pages.
C10_NewlinePerPage ==
  (Returned /\ Succeeds(Doc)) =>
     /\ (Doc.pages = <<>> => ret = <<>>)
     /\ CountNL(ret) = NewlinesIn(Doc.pages) + Len(Doc.pages)
     /\ Len(ret) >= Len(Doc.pages)

C10_Witness ==
  /\ Returned
  /\ Doc.kind = "pdf"
  /\ Doc.pages = <<>>
  /\ ret = <<>>

====
